---- MODULE Spec2Model ----
(***************************************************************************)
(* Browser client of the image gallery (Griffin171/yaya).                  *)
(*                                                                         *)
(* Two variants of the client exist in the repository:                     *)
(*   "refetch"  src/unnamed/part_000      (gallery rebuilt by loadImages)  *)
(*   "reload"   src/static/js/script.js   (card inserted after an upload,  *)
(*                                         page reloaded after a delete)   *)
(* The server and the network are the environment: a request is "sent",    *)
(* the server answers it ("replied"), and the client handles the answers   *)
(* in any order.                                                           *)
(*                                                                         *)
(* Text is a sequence of one-character strings; "Q" stands for the double  *)
(* quote character, which ends an HTML attribute value.                    *)
(***************************************************************************)
EXTENDS Integers, Sequences, FiniteSets, TLC

\* ------------------------------------------------------------------ bounds
\* Requests the client may issue in one behaviour.
MaxReq == 3
\* Uploads submitted in a behaviour of SpecUploads.
MaxUploads == 2
\* Confirmed delete clicks in a behaviour of SpecGallery.
MaxDeletes == 2

\* ------------------------------------------------------------ sample inputs
NoFile == ""
\* What the user may have in the form: <<file, title, description>>.
FormSamples ==
    {<<NoFile, <<>>, <<>>>>,
     <<NoFile, <<"S">>, <<"d">>>>,
     <<"a.png", <<"S">>, <<"d">>>>,
     <<"a.png", <<"S", "Q">>, <<>>>>}
Parts == {"delete-btn", "img", "card"}

VARIABLES
    variant,           \* which client runs: "refetch" or "reload"
    server,            \* the server's image list (sequence of records)
    nextId,            \* next id the server assigns
    net,               \* requests in flight
    nreq,              \* requests issued so far
    gallery,           \* children of #cardsContainer
    uploadArea,        \* uploadArea.style.display
    msgText,           \* messageDiv.textContent
    msgColor,          \* messageDiv.style.color
    imageUploadInput,  \* selected file name, NoFile when none
    titleInput,        \* titleInput.value
    descInput,         \* descInput.value
    modal,             \* imageModal.style.display, modalImg.src, modalTitle, modalDesc
    alertMsg           \* alert() raised by the step just taken, <<>> when none

vars == <<variant, server, nextId, net, nreq, gallery, uploadArea, msgText,
          msgColor, imageUploadInput, titleInput, descInput, modal, alertMsg>>

\* No alert() is raised by the step.
NoAlert == alertMsg' = <<>>

\* ------------------------------------------------------------- image record
\* { id, filename, filepath, title, description } as the list endpoint
\* returns it; filepath is assigned by the server.
ImageRecord(id, filename, title, description) ==
    [id |-> id, filename |-> filename,
     filepath |-> <<"/img/", ToString(id)>>,
     title |-> title, description |-> description]

InitialServers ==
    {<<>>, <<ImageRecord(1, "a.png", <<"S">>, <<>>)>>}

\* A server that already stores two drawings when the page is opened.
GalleryServers ==
    {<<ImageRecord(1, "a.png", <<"S">>, <<>>), ImageRecord(2, "b.png", <<"T">>, <<"d">>)>>}

\* --------------------------------------------------------------- DOM nodes
\* The value an attribute gets when `name="${s}"` is parsed as HTML: the
\* text up to the first double quote.
AttrValue(s) ==
    LET quotes == {i \in 1..Len(s) : s[i] = "Q"}
    IN  IF quotes = {} THEN s
        ELSE SubSeq(s, 1, (CHOOSE i \in quotes : \A j \in quotes : i <= j) - 1)

\* HTMLImageElement.src: the URL resolved against the document's origin.
ResolveUrl(u) ==
    IF u = <<>> THEN <<>>
    ELSE IF u[1] = "http://host" THEN u
    ELSE <<"http://host">> \o u

Node(kind, id, btnId, fullSrc, title, description, imgSrc, hasDelete, listener, text) ==
    [kind |-> kind, id |-> id, btnId |-> btnId, fullSrc |-> fullSrc,
     title |-> title, description |-> description, imgSrc |-> imgSrc,
     hasDelete |-> hasDelete, listener |-> listener, text |-> text]

Paragraph(text) ==
    Node("p", "undefined", "undefined", <<>>, <<>>, <<>>, <<>>, FALSE, FALSE, text)

\* <p id="noDrawingsMessage">
noDrawingsMessage == Paragraph(<<"Nenhum desenho ainda.">>)

\* The card loadImages builds for one record of the list response.
cardHtml(image) ==
    Node("card", ToString(image.id), ToString(image.id),
         AttrValue(image.filepath), AttrValue(image.title),
         AttrValue(image.description), AttrValue(image.filepath),
         TRUE, FALSE, <<>>)

\* The card the reload variant inserts after a successful upload; title and
\* desc are the values of the inputs at the time the template is evaluated.
newImageHtml(data, title, desc) ==
    Node("card", "undefined", "undefined",
         AttrValue(data.image_url), AttrValue(title), AttrValue(desc),
         AttrValue(data.image_url), FALSE, FALSE, <<>>)

\* A card of the page the server renders for the reload variant.
ServerRenderedCard(image) ==
    Node("card", ToString(image.id), ToString(image.id),
         image.filepath, image.title, image.description, image.filepath,
         TRUE, FALSE, <<>>)

ServerRenderedPage(images) ==
    IF images = <<>> THEN <<noDrawingsMessage>>
    ELSE [i \in 1..Len(images) |-> ServerRenderedCard(images[i])]

\* addCardClickListeners: every .card gets handleCardClick (once).
addCardClickListeners(nodes) ==
    [i \in 1..Len(nodes) |->
        IF nodes[i].kind = "card" THEN [nodes[i] EXCEPT !.listener = TRUE]
        ELSE nodes[i]]

\* The cards among the children of the container.
Cards(nodes) == SelectSeq(nodes, LAMBDA n : n.kind = "card")

\* ------------------------------------------------------------------- modal
ClosedModal == [display |-> "", img |-> <<>>, title |-> <<>>, desc |-> <<>>]

\* openModal with the title written to both text fields.
openModal_TitleInDesc(src, title, desc) ==
    [display |-> "flex", img |-> ResolveUrl(src), title |-> title, desc |-> title]

openModal(src, title, desc) ==
    [display |-> "flex", img |-> ResolveUrl(src), title |-> title, desc |-> desc]

ModalIsOpen == modal.display = "flex"

\* ---------------------------------------------------------------- requests
NoArg == [id |-> "", file |-> NoFile, title |-> <<>>, description |-> <<>>]
NoResp == [status |-> "none", message |-> "", success |-> FALSE,
           images |-> <<>>, image_url |-> <<>>, filename |-> ""]

Request(kind, arg) ==
    [rid |-> nreq + 1, kind |-> kind, phase |-> "sent", orphan |-> FALSE,
     arg |-> arg, resp |-> NoResp]

Navigating == \E r \in net : r.kind = "page"

\* Uploads and deletes of this page that are not handled yet; handling one
\* may issue one more request (loadImages or the reload).
Pending == {r \in net : r.kind \in {"upload", "delete"} /\ ~r.orphan}

\* Room for a request of the user and the request its answer may trigger,
\* beside those the pending requests may trigger.
CanIssue == nreq + Cardinality(Pending) + 2 <= MaxReq

\* -------------------------------------------------------------------- Init
\* State of the client when DOMContentLoaded has run.  The refetch variant
\* ends its set-up with loadImages(); the reload variant receives the cards
\* in the page (its first request) and attaches handleCardClick to each.
InitFrom(servers) ==
    /\ variant \in {"refetch", "reload"}
    /\ server \in servers
    /\ nextId = Len(server) + 1
    /\ IF variant = "refetch"
       THEN /\ net = {[rid |-> 1, kind |-> "list", phase |-> "sent",
                       orphan |-> FALSE, arg |-> NoArg, resp |-> NoResp]}
            /\ nreq = 1
            /\ gallery = <<noDrawingsMessage>>
       ELSE /\ net = {}
            /\ nreq = 1
            /\ gallery = addCardClickListeners(ServerRenderedPage(server))
    /\ uploadArea = ""
    /\ msgText = <<>>
    /\ msgColor = ""
    /\ imageUploadInput = NoFile
    /\ titleInput = <<>>
    /\ descInput = <<>>
    /\ modal = ClosedModal
    /\ alertMsg = <<>>

Init == InitFrom(InitialServers)

\* ------------------------------------------------------------- upload form
\* toggleUploadFormBtn click listener
ToggleUploadForm ==
    /\ ~Navigating
    /\ uploadArea' = IF uploadArea = "flex" THEN "none" ELSE "flex"
    /\ msgText' = <<>>
    /\ NoAlert
    /\ UNCHANGED <<variant, server, nextId, net, nreq, gallery, msgColor,
                   imageUploadInput, titleInput, descInput, modal>>

\* The user picks a file and types a title and a description.
EditForm ==
    /\ ~Navigating
    /\ \E f \in FormSamples :
          /\ f # <<imageUploadInput, titleInput, descInput>>
          /\ imageUploadInput' = f[1]
          /\ titleInput' = f[2]
          /\ descInput' = f[3]
    /\ NoAlert
    /\ UNCHANGED <<variant, server, nextId, net, nreq, gallery, uploadArea,
                   msgText, msgColor, modal>>

\* SubmitNoFile without its return: the handler goes on and posts the form.
SubmitNoFile_NoReturn ==
    /\ imageUploadInput = NoFile
    /\ msgText' = <<"Enviando desenho...">>
    /\ msgColor' = "blue"
    /\ net' = net \cup {Request("upload", [NoArg EXCEPT !.title = titleInput,
                                                        !.description = descInput])}
    /\ nreq' = nreq + 1
    /\ NoAlert
    /\ UNCHANGED <<variant, server, nextId, gallery, uploadArea,
                   imageUploadInput, titleInput, descInput, modal>>

\* submit listener, no file selected: warning and return
SubmitNoFile ==
    /\ imageUploadInput = NoFile
    /\ msgText' = <<"Por favor, selecione um arquivo para upload.">>
    /\ msgColor' = "orange"
    /\ NoAlert
    /\ UNCHANGED <<variant, server, nextId, net, nreq, gallery, uploadArea,
                   imageUploadInput, titleInput, descInput, modal>>

\* submit listener past the file test: FormData built, fetch('/upload') issued
PostForm ==
    /\ msgText' = <<"Enviando desenho...">>
    /\ msgColor' = "blue"
    /\ net' = net \cup {Request("upload",
                  [NoArg EXCEPT !.file = imageUploadInput,
                                !.title = titleInput,
                                !.description = descInput])}
    /\ nreq' = nreq + 1
    /\ NoAlert
    /\ UNCHANGED <<variant, server, nextId, gallery, uploadArea,
                   imageUploadInput, titleInput, descInput, modal>>

\* submit listener, file selected
SubmitWithFile ==
    /\ imageUploadInput # NoFile
    /\ CanIssue
    /\ PostForm

SubmitUpload ==
    /\ ~Navigating
    /\ (SubmitNoFile \/ SubmitWithFile)

\* The children of the container after the reload variant has removed the
\* first <p> when it is the "no drawings" message.
RemoveNoDrawings(nodes) ==
    LET ps == {i \in 1..Len(nodes) : nodes[i].kind = "p"}
    IN  IF ps = {} THEN nodes
        ELSE LET k == CHOOSE i \in ps : \A j \in ps : i <= j
             IN  IF nodes[k].text = noDrawingsMessage.text
                 THEN SubSeq(nodes, 1, k - 1) \o SubSeq(nodes, k + 1, Len(nodes))
                 ELSE nodes

\* response.ok branch of the submit listener
UploadOk(r) ==
    /\ r.resp.status = "ok"
    /\ msgText' = <<r.resp.message>>
    /\ msgColor' = "green"
    /\ imageUploadInput' = NoFile
    /\ titleInput' = <<>>
    /\ descInput' = <<>>
    /\ uploadArea' = "none"
    /\ IF variant = "refetch"
       THEN /\ net' = (net \ {r}) \cup {Request("list", NoArg)}
            /\ nreq' = nreq + 1
            /\ gallery' = gallery
       ELSE /\ net' = net \ {r}
            /\ nreq' = nreq
            /\ gallery' = addCardClickListeners(
                   <<newImageHtml(r.resp, titleInput', descInput')>>
                   \o RemoveNoDrawings(gallery))
    /\ NoAlert
    /\ UNCHANGED <<variant, server, nextId, modal>>

\* UploadErr that clears the form as the success branch does.
UploadErr_ClearsForm(r) ==
    /\ r.resp.status = "err"
    /\ msgText' = <<"Erro: ", IF r.resp.message # "" THEN r.resp.message
                              ELSE "Ocorreu um erro ao enviar.">>
    /\ msgColor' = "red"
    /\ net' = net \ {r}
    /\ imageUploadInput' = NoFile
    /\ titleInput' = <<>>
    /\ descInput' = <<>>
    /\ NoAlert
    /\ UNCHANGED <<variant, server, nextId, nreq, gallery, uploadArea, modal>>

\* else branch (non-2xx) of the submit listener
UploadErr(r) ==
    /\ r.resp.status = "err"
    /\ msgText' = <<"Erro: ", IF r.resp.message # "" THEN r.resp.message
                              ELSE "Ocorreu um erro ao enviar.">>
    /\ msgColor' = "red"
    /\ net' = net \ {r}
    /\ NoAlert
    /\ UNCHANGED <<variant, server, nextId, nreq, gallery, uploadArea,
                   imageUploadInput, titleInput, descInput, modal>>

\* UploadFail that posts the form data again.
UploadFail_Retries(r) ==
    /\ r.resp.status = "fail"
    /\ msgText' = <<"Erro de conexão ou servidor.">>
    /\ msgColor' = "red"
    /\ net' = (net \ {r}) \cup (IF nreq < MaxReq THEN {Request("upload", r.arg)} ELSE {})
    /\ nreq' = IF nreq < MaxReq THEN nreq + 1 ELSE nreq
    /\ NoAlert
    /\ UNCHANGED <<variant, server, nextId, gallery, uploadArea,
                   imageUploadInput, titleInput, descInput, modal>>

\* UploadFail that only logs the error to the console.
UploadFail_Silent(r) ==
    /\ r.resp.status = "fail"
    /\ net' = net \ {r}
    /\ NoAlert
    /\ UNCHANGED <<variant, server, nextId, nreq, gallery, uploadArea, msgText,
                   msgColor, imageUploadInput, titleInput, descInput, modal>>

\* catch branch of the submit listener
UploadFail(r) ==
    /\ r.resp.status = "fail"
    /\ msgText' = <<"Erro de conexão ou servidor.">>
    /\ msgColor' = "red"
    /\ net' = net \ {r}
    /\ NoAlert
    /\ UNCHANGED <<variant, server, nextId, nreq, gallery, uploadArea,
                   imageUploadInput, titleInput, descInput, modal>>

Replied(kind) ==
    {r \in net : r.kind = kind /\ r.phase = "replied" /\ ~r.orphan}

UploadResponse ==
    /\ ~Navigating
    /\ \E r \in Replied("upload") : UploadOk(r) \/ UploadErr(r) \/ UploadFail(r)

\* RenderImages that removes the paragraphs only and keeps the cards on
\* display in front of the new ones.
RenderImages_Merges(images) ==
    IF Len(images) = 0 THEN <<noDrawingsMessage>>
    ELSE Cards(gallery) \o [i \in 1..Len(images) |-> cardHtml(images[i])]

\* RenderImages without `cardsContainer.innerHTML = ''`.
RenderImages_NoClear(images) ==
    gallery \o (IF Len(images) = 0 THEN <<noDrawingsMessage>>
                ELSE [i \in 1..Len(images) |-> cardHtml(images[i])])

\* --------------------------------------------------------- gallery renderer
\* What loadImages leaves in the container for a successful list response.
RenderImages(images) ==
    IF Len(images) = 0 THEN <<noDrawingsMessage>>
    ELSE [i \in 1..Len(images) |-> cardHtml(images[i])]

\* What the catch branch of loadImages leaves in the container.
ErrorParagraph(message) ==
    Paragraph(<<"Erro ao carregar desenhos: ", message>>)

\* loadImages after the await: the response is rendered
LoadImagesOk(r) ==
    /\ r.resp.status = "ok"
    /\ gallery' = RenderImages(r.resp.images)

\* LoadImagesErr that adds the error paragraph to what the container holds.
LoadImagesErr_Appends(r) ==
    /\ r.resp.status \in {"err", "fail"}
    /\ gallery' = Append(gallery,
                         ErrorParagraph(IF r.resp.status = "err"
                                        THEN "Erro HTTP: " \o r.resp.message
                                        ELSE r.resp.message))

\* catch branch: a non-2xx answer throws `Erro HTTP: ${response.status}`, a
\* failed fetch or an unparsable body throws its own message
LoadImagesErr(r) ==
    /\ r.resp.status \in {"err", "fail"}
    /\ gallery' = <<ErrorParagraph(IF r.resp.status = "err"
                                   THEN "Erro HTTP: " \o r.resp.message
                                   ELSE r.resp.message)>>

LoadImagesResponse ==
    /\ ~Navigating
    /\ \E r \in Replied("list") :
          /\ LoadImagesOk(r) \/ LoadImagesErr(r)
          /\ net' = net \ {r}
    /\ NoAlert
    /\ UNCHANGED <<variant, server, nextId, nreq, uploadArea, msgText, msgColor,
                   imageUploadInput, titleInput, descInput, modal>>

\* ---------------------------------------------------------- click on a card
\* handleCardClick, the listener the reload variant attaches to each card
handleCardClick(card) ==
    openModal(card.fullSrc, card.title, card.description)

DeleteArg(id) == [NoArg EXCEPT !.id = id]

\* ContainerClickRefetch whose delete branch falls through to openModal.
ContainerClickRefetch_DeleteOpens(m, card, part, confirmed) ==
    [modal |-> openModal(card.fullSrc, card.title, card.description),
     deletes |-> IF part = "delete-btn" /\ confirmed THEN {card.id} ELSE {}]

\* ContainerClickRefetch that reads the id of the container's first card.
ContainerClickRefetch_FirstCard(m, card, part, confirmed) ==
    IF part = "delete-btn"
    THEN [modal |-> m, deletes |-> IF confirmed THEN {gallery[1].id} ELSE {}]
    ELSE [modal |-> openModal(card.fullSrc, card.title, card.description),
          deletes |-> {}]

\* cardsContainer click listener of the refetch variant, for a click inside
\* `card` whose target is `part`; `confirmed` is the answer to confirm().
\* Gives the modal after the click and the ids of the delete requests issued.
ContainerClickRefetch(m, card, part, confirmed) ==
    IF part = "delete-btn"
    THEN [modal |-> m, deletes |-> IF confirmed THEN {card.id} ELSE {}]
    ELSE [modal |-> openModal(card.fullSrc, card.title, card.description),
          deletes |-> {}]

\* cardsContainer click listener of the reload variant
ContainerClickReload(m, card, part, confirmed) ==
    IF part = "delete-btn"
    THEN [modal |-> m, deletes |-> IF confirmed THEN {card.btnId} ELSE {}]
    ELSE [modal |-> [display |-> "flex", img |-> ResolveUrl(card.imgSrc),
                     title |-> card.title, desc |-> card.description],
          deletes |-> {}]

\* One click event inside a card: the listeners on the path from the target
\* to the container run in bubbling order, the card's before the container's.
DispatchCardClick(card, part, confirmed) ==
    IF variant = "refetch"
    THEN ContainerClickRefetch(modal, card, part, confirmed)
    ELSE ContainerClickReload(
             IF card.listener THEN handleCardClick(card) ELSE modal,
             card, part, confirmed)

\* A click inside the i-th child of the container, a card, on `part`.
CardClicked(i, part, confirmed) ==
    LET card == gallery[i]
        res == DispatchCardClick(card, part, confirmed)
    IN  /\ card.kind = "card"
        /\ part = "delete-btn" => card.hasDelete
        /\ confirmed => part = "delete-btn"
        /\ modal' = res.modal
        /\ net' = net \cup {Request("delete", DeleteArg(id)) : id \in res.deletes}
        /\ nreq' = nreq + Cardinality(res.deletes)
        /\ NoAlert
        /\ UNCHANGED <<variant, server, nextId, gallery, uploadArea, msgText,
                       msgColor, imageUploadInput, titleInput, descInput>>

ClickCard(i, part, confirmed) ==
    /\ confirmed => CanIssue
    /\ CardClicked(i, part, confirmed)

\* A click in the container outside every card: closest('.card') is null.
ClickOutsideCard(i) ==
    /\ gallery[i].kind # "card"
    /\ NoAlert
    /\ UNCHANGED <<variant, server, nextId, net, nreq, gallery, uploadArea, msgText,
                   msgColor, imageUploadInput, titleInput, descInput, modal>>

CardsContainerClick ==
    /\ ~Navigating
    /\ \E i \in 1..Len(gallery) :
          \/ \E part \in Parts, confirmed \in BOOLEAN : ClickCard(i, part, confirmed)
          \/ ClickOutsideCard(i)

\* ------------------------------------------------------------- delete flow
\* window.location.reload(): the page is requested again; requests of the
\* old page that the server has not seen yet may still reach it, but nobody
\* handles their answers.
Reload(others) ==
    {[r EXCEPT !.orphan = TRUE] : r \in {q \in others : q.phase = "sent"}}
    \cup {Request("page", NoArg)}

\* data.success branch
DeleteOk(r) ==
    /\ r.resp.status = "ok"
    /\ r.resp.success
    /\ alertMsg' = <<r.resp.message>>
    /\ net' = IF variant = "refetch"
              THEN (net \ {r}) \cup {Request("list", NoArg)}
              ELSE Reload(net \ {r})
    /\ nreq' = nreq + 1

\* DeleteRefused that refreshes the gallery whatever the answer says.
DeleteRefused_Refreshes(r) ==
    /\ r.resp.status \in {"ok", "err"}
    /\ ~r.resp.success
    /\ alertMsg' = <<"Erro ao excluir desenho: ", r.resp.message>>
    /\ net' = IF variant = "refetch"
              THEN (net \ {r}) \cup {Request("list", NoArg)}
              ELSE Reload(net \ {r})
    /\ nreq' = nreq + 1

\* else branch: success is false
DeleteRefused(r) ==
    /\ r.resp.status \in {"ok", "err"}
    /\ ~r.resp.success
    /\ alertMsg' = <<"Erro ao excluir desenho: ", r.resp.message>>
    /\ net' = net \ {r}
    /\ nreq' = nreq

\* catch: the request failed or the body is not JSON
DeleteFail(r) ==
    /\ r.resp.status = "fail"
    /\ alertMsg' = <<"Ocorreu um erro ao tentar excluir o desenho.">>
    /\ net' = net \ {r}
    /\ nreq' = nreq

DeleteResponse ==
    /\ ~Navigating
    /\ \E r \in Replied("delete") : DeleteOk(r) \/ DeleteRefused(r) \/ DeleteFail(r)
    /\ UNCHANGED <<variant, server, nextId, gallery, uploadArea, msgText, msgColor,
                   imageUploadInput, titleInput, descInput, modal>>

\* The reloaded page arrives: the document is replaced and DOMContentLoaded
\* runs again.
PageLoaded ==
    \E r \in Replied("page") :
       /\ gallery' = addCardClickListeners(ServerRenderedPage(r.resp.images))
       /\ net' = net \ {r}
       /\ uploadArea' = ""
       /\ msgText' = <<>>
       /\ msgColor' = ""
       /\ imageUploadInput' = NoFile
       /\ titleInput' = <<>>
       /\ descInput' = <<>>
       /\ modal' = ClosedModal
       /\ alertMsg' = <<>>
       /\ UNCHANGED <<variant, server, nextId, nreq>>

\* ------------------------------------------------------------ modal viewer
\* closeModalBtn click: the reload variant has a second listener that also
\* clears the fields.
CloseModalBtnClick ==
    /\ ~Navigating
    /\ ModalIsOpen
    /\ modal' = IF variant = "refetch"
                THEN [modal EXCEPT !.display = "none"]
                ELSE [display |-> "none", img |-> <<>>, title |-> <<>>, desc |-> <<>>]
    /\ NoAlert
    /\ UNCHANGED <<variant, server, nextId, net, nreq, gallery, uploadArea, msgText,
                   msgColor, imageUploadInput, titleInput, descInput>>

\* imageModal click listener with the target test left out.
imageModalClicked_AnyTarget(m, target) ==
    IF variant = "refetch"
    THEN [m EXCEPT !.display = "none"]
    ELSE [display |-> "none", img |-> <<>>, title |-> <<>>, desc |-> <<>>]

\* imageModal click listener(s): the modal after a click whose target is the
\* modal element itself ("imageModal") or an element inside it ("content");
\* the reload variant's second listener also clears the fields.
imageModalClicked(m, target) ==
    IF target # "imageModal" THEN m
    ELSE IF variant = "refetch"
         THEN [m EXCEPT !.display = "none"]
         ELSE [display |-> "none", img |-> <<>>, title |-> <<>>, desc |-> <<>>]

\* A click on the open modal, on the backdrop or inside the content.
ImageModalClickOn(target) ==
    /\ ~Navigating
    /\ ModalIsOpen
    /\ modal' = imageModalClicked(modal, target)
    /\ NoAlert
    /\ UNCHANGED <<variant, server, nextId, net, nreq, gallery, uploadArea, msgText,
                   msgColor, imageUploadInput, titleInput, descInput>>

\* imageModal click: closes only when the target is the modal itself
ImageModalClick ==
    \E target \in {"imageModal", "content"} : ImageModalClickOn(target)

\* ------------------------------------------------------- server and network
\* The answer to r travels back, unless r belongs to a page that is gone.
Reply(r, resp) ==
    IF r.orphan THEN net \ {r}
    ELSE (net \ {r}) \cup {[r EXCEPT !.phase = "replied", !.resp = resp]}

Sent(kind) == {r \in net : r.kind = kind /\ r.phase = "sent"}

\* POST /upload: 2xx stores a new record, non-2xx stores nothing
ServerUpload ==
    \E r \in Sent("upload") :
       \/ LET image == ImageRecord(nextId, r.arg.file, r.arg.title, r.arg.description)
          IN                /\ server' = Append(server, image)
              /\ nextId' = nextId + 1
              /\ net' = Reply(r, [NoResp EXCEPT !.status = "ok",
                                                !.message = "Desenho enviado!",
                                                !.image_url = image.filepath,
                                                !.filename = image.filename])
       \/ /\ UNCHANGED <<server, nextId>>
          /\ \E m \in {"Tipo de arquivo inválido", ""} :
                net' = Reply(r, [NoResp EXCEPT !.status = "err", !.message = m])

\* GET /api/images
ServerList ==
    /\ \E r \in Sent("list") :
          \/ net' = Reply(r, [NoResp EXCEPT !.status = "ok", !.images = server])
          \/ net' = Reply(r, [NoResp EXCEPT !.status = "err", !.message = "500"])
    /\ UNCHANGED <<server, nextId>>

RemoveId(images, id) ==
    LET keep == {i \in 1..Len(images) : ToString(images[i].id) # id}
        F[k \in 0..Len(images)] ==
            IF k = 0 THEN <<>>
            ELSE IF k \in keep THEN Append(F[k - 1], images[k]) ELSE F[k - 1]
    IN  F[Len(images)]

\* POST /delete/:id
ServerDelete ==
    \E r \in Sent("delete") :
       \/ /\ \E i \in 1..Len(server) : ToString(server[i].id) = r.arg.id
          /\ server' = RemoveId(server, r.arg.id)
          /\ nextId' = nextId
          /\ net' = Reply(r, [NoResp EXCEPT !.status = "ok", !.success = TRUE,
                                            !.message = "Desenho excluído"])
       \/ /\ UNCHANGED <<server, nextId>>
          /\ net' = Reply(r, [NoResp EXCEPT !.status = "err",
                                            !.message = "Desenho não encontrado"])

\* GET of the page itself, after window.location.reload()
ServerPage ==
    /\ \E r \in Sent("page") :
          net' = Reply(r, [NoResp EXCEPT !.status = "ok", !.images = server])
    /\ UNCHANGED <<server, nextId>>

\* The request never reaches the server, or its answer is not JSON.
TransportFail ==
    /\ \E r \in net :
          /\ r.phase = "sent"
          /\ r.kind # "page"
          /\ net' = Reply(r, [NoResp EXCEPT !.status = "fail",
                                            !.message = "Failed to fetch"])
    /\ UNCHANGED <<server, nextId>>

Server ==
    /\ ServerUpload \/ ServerList \/ ServerDelete \/ ServerPage \/ TransportFail
    /\ NoAlert
    /\ UNCHANGED <<variant, nreq, gallery, uploadArea, msgText, msgColor,
                   imageUploadInput, titleInput, descInput, modal>>

\* -------------------------------------------------------------------- Next
Next ==
    \/ ToggleUploadForm
    \/ EditForm
    \/ SubmitUpload
    \/ UploadResponse
    \/ LoadImagesResponse
    \/ CardsContainerClick
    \/ DeleteResponse
    \/ PageLoaded
    \/ CloseModalBtnClick
    \/ ImageModalClick
    \/ Server

Spec == Init /\ [][Next]_vars

\* ------------------------------------------------ the upload flow on its own
\* The refetch variant with the user acting on the upload form only, and
\* submitting again without waiting for the answer: up to MaxUploads uploads
\* (and the list-fetches they trigger) are in flight together.
InitUploads ==
    /\ Init
    /\ variant = "refetch"
    /\ server = <<>>

SubmitAgain ==
    /\ \/ SubmitNoFile
       \/ /\ imageUploadInput # NoFile
          /\ nreq <= MaxUploads
          /\ PostForm

UploadServer ==
    /\ ServerUpload \/ ServerList \/ TransportFail
    /\ NoAlert
    /\ UNCHANGED <<variant, nreq, gallery, uploadArea, msgText, msgColor,
                   imageUploadInput, titleInput, descInput, modal>>

NextUploads ==
    \/ ToggleUploadForm
    \/ EditForm
    \/ SubmitAgain
    \/ UploadResponse
    \/ LoadImagesResponse
    \/ UploadServer

SpecUploads == InitUploads /\ [][NextUploads]_vars

\* --------------------------------------------------- the gallery on its own
\* Both variants on a server that stores two drawings, with the user acting
\* on the cards only: up to MaxDeletes rounds of delete and re-render.
InitGallery == InitFrom(GalleryServers)

GalleryClick ==
    /\ ~Navigating
    /\ \E i \in 1..Len(gallery) :
          \/ \E part \in Parts, confirmed \in BOOLEAN :
                /\ confirmed => nreq + Cardinality(Pending) + 2 <= 2 * MaxDeletes + 1
                /\ CardClicked(i, part, confirmed)
          \/ ClickOutsideCard(i)

GalleryServer ==
    /\ ServerList \/ ServerDelete \/ ServerPage \/ TransportFail
    /\ NoAlert
    /\ UNCHANGED <<variant, nreq, gallery, uploadArea, msgText, msgColor,
                   imageUploadInput, titleInput, descInput, modal>>

NextGallery ==
    \/ GalleryClick
    \/ DeleteResponse
    \/ LoadImagesResponse
    \/ PageLoaded
    \/ CloseModalBtnClick
    \/ GalleryServer

SpecGallery == InitGallery /\ [][NextGallery]_vars

\* ================================================================== claims
\* The cards on display, and what the claims compare them with.
CardIds(nodes) == [i \in 1..Len(Cards(nodes)) |-> Cards(nodes)[i].id]
ServerIds == [i \in 1..Len(server) |-> ToString(server[i].id)]
ShowsError == \E i \in 1..Len(gallery) :
                 gallery[i].kind = "p" /\ gallery[i].text # noDrawingsMessage.text
NewRequests(kinds) == {q \in net' : q \notin net /\ q.kind \in kinds}
\* The step is the client handling the answer r.
Handles(r) == r \in net /\ r.phase = "replied" /\ ~r.orphan /\ r \notin net'

\* C1: in the refetch variant, once every issued request has resolved (and
\* the last list-fetch did not end in the inline error), the cards on display
\* are exactly the server's current list.
C1_DisplayMatchesServer ==
    (variant = "refetch" /\ net = {} /\ ~ShowsError) => CardIds(gallery) = ServerIds

\* The step is a click on the delete button of a card.
DeleteClick ==
    /\ ~Navigating
    /\ \E i \in 1..Len(gallery), confirmed \in BOOLEAN :
          ClickCard(i, "delete-btn", confirmed)

\* C2: a click on the delete button of a card leaves the modal open if it was
\* open and closed if it was closed.
C2_DeleteClickKeepsModal ==
    [][DeleteClick => (ModalIsOpen' <=> ModalIsOpen)]_vars

\* C3: handling a 2xx upload answer clears the three inputs, hides the upload
\* area, shows the server's message and issues a list-fetch.
C3_UploadSuccess ==
    [][\A r \in Replied("upload") :
          (UploadResponse /\ Handles(r) /\ r.resp.status = "ok") =>
              /\ imageUploadInput' = NoFile
              /\ titleInput' = <<>>
              /\ descInput' = <<>>
              /\ uploadArea' # "flex"
              /\ msgText' = <<r.resp.message>>
              /\ NewRequests({"list"}) # {}]_vars

\* C4: a submit with no file selected issues no request, shows the orange
\* warning and leaves the upload area, the title, the description, the
\* gallery and the modal as they were.
C4_NoFileNoRequest ==
    [][(SubmitUpload /\ imageUploadInput = NoFile) =>
          /\ net' = net
          /\ nreq' = nreq
          /\ msgColor' = "orange"
          /\ msgText' = <<"Por favor, selecione um arquivo para upload.">>
          /\ UNCHANGED <<uploadArea, titleInput, descInput, gallery, modal>>]_vars
C4_Witness ==
    /\ msgColor = "orange"
    /\ msgText = <<"Por favor, selecione um arquivo para upload.">>
    /\ imageUploadInput = NoFile
    /\ titleInput = <<"S">>
    /\ uploadArea = "flex"
    /\ net = {}

\* The card carries the record's values in its attributes.
Embeds(card, image) ==
    /\ card.id = ToString(image.id)
    /\ card.fullSrc = image.filepath
    /\ card.title = image.title
    /\ card.description = image.description
\* The records the server can have stored so far.
PossibleRecords ==
    {ImageRecord(id, f[1], f[2], f[3]) : id \in 1..(nextId - 1), f \in FormSamples}
    \cup UNION {{images[i] : i \in 1..Len(images)} :
                   images \in InitialServers \cup GalleryServers}

\* C5: every card on display has a delete button and carries the id, path,
\* title and description of a record, with the record's values.
C5_CardsEmbedRecord ==
    \A i \in 1..Len(gallery) :
       gallery[i].kind = "card" =>
          /\ gallery[i].hasDelete
          /\ \E image \in PossibleRecords : Embeds(gallery[i], image)

\* C6: rendering a successful list answer leaves the placeholder alone for an
\* empty list, and for n records exactly n cards, the i-th card for the i-th
\* record, and nothing else.
C6_RenderReplaces ==
    [][\A r \in Replied("list") :
          (LoadImagesResponse /\ Handles(r) /\ r.resp.status = "ok") =>
              LET images == r.resp.images
              IN  /\ images = <<>> => gallery' = <<noDrawingsMessage>>
                  /\ images # <<>> =>
                        /\ Len(gallery') = Len(images)
                        /\ \A i \in 1..Len(images) :
                              /\ gallery'[i].kind = "card"
                              /\ gallery'[i].id = ToString(images[i].id)]_vars
C6_Witness ==
    /\ variant = "refetch"
    /\ net = {}
    /\ Len(server) = 2
    /\ Len(gallery) = 2
    /\ CardIds(gallery) = <<"1", "2">>

\* C7: a click inside a card that is not on its delete button leaves the
\* modal open showing the card's data-title, data-description and
\* data-full-src, and issues no request.
C7_CardClickOpensModal ==
    [][\A i \in 1..Len(gallery), part \in Parts \ {"delete-btn"} :
          (CardsContainerClick /\ ClickCard(i, part, FALSE)) =>
              /\ modal'.display = "flex"
              /\ modal'.title = gallery[i].title
              /\ modal'.desc = gallery[i].description
              /\ modal'.img = ResolveUrl(gallery[i].fullSrc)
              /\ net' = net]_vars
C7_Witness ==
    /\ ModalIsOpen
    /\ \E i \in 1..Len(gallery) :
          /\ gallery[i].kind = "card"
          /\ gallery[i].title # <<>>
          /\ gallery[i].description # <<>>
          /\ modal.title = gallery[i].title
          /\ modal.desc = gallery[i].description
          /\ modal.img = ResolveUrl(gallery[i].fullSrc)

\* C8: handling a delete answer with success:false shows an alert with the
\* server's message and changes neither the gallery nor the requests in
\* flight; a delete answer is followed by a list-fetch or a reload only when
\* it says success:true.
C8_RefusedDeleteNoRefresh ==
    [][\A r \in Replied("delete") :
          (DeleteResponse /\ Handles(r)) =>
              /\ (r.resp.status # "fail" /\ ~r.resp.success
                  /\ \A q \in Replied("delete") \ {r} : q \in net') =>
                    /\ \E k \in 1..Len(alertMsg') : alertMsg'[k] = r.resp.message
                    /\ gallery' = gallery
                    /\ NewRequests({"list", "page"}) = {}
              /\ NewRequests({"list", "page"}) # {} =>
                    \E q \in Replied("delete") : q.resp.success /\ q \notin net']_vars
C8_Witness ==
    /\ alertMsg = <<"Erro ao excluir desenho: ", "Desenho não encontrado">>
    /\ Cards(gallery) # <<>>
    /\ ~Navigating

\* C9: a click on a delete button whose confirmation is declined issues no
\* request and leaves the gallery and the modal as they were; a click that is
\* not on a delete button issues no delete request.
C9_DeleteOnlyAfterConfirm ==
    [][/\ (~Navigating /\ \E i \in 1..Len(gallery) : ClickCard(i, "delete-btn", FALSE)) =>
             /\ net' = net
             /\ gallery' = gallery
             /\ modal' = modal
       /\ (~Navigating /\ \E i \in 1..Len(gallery), part \in Parts \ {"delete-btn"} :
                             ClickCard(i, part, FALSE)) =>
             NewRequests({"delete"}) = {}]_vars

\* C10: handling a non-2xx upload answer shows "Erro: " with the server's
\* message, or with the fallback when there is none, in red, leaves the
\* upload area and the three inputs as they were and issues no list-fetch.
C10_UploadErrorKeepsForm ==
    [][\A r \in Replied("upload") :
          (UploadResponse /\ Handles(r) /\ r.resp.status = "err") =>
              /\ msgColor' = "red"
              /\ msgText' = <<"Erro: ", IF r.resp.message = ""
                                        THEN "Ocorreu um erro ao enviar."
                                        ELSE r.resp.message>>
              /\ UNCHANGED <<uploadArea, imageUploadInput, titleInput, descInput>>
              /\ gallery' = gallery
              /\ NewRequests({"list", "page"}) = {}]_vars
C10_Witness ==
    /\ msgColor = "red"
    /\ msgText = <<"Erro: ", "Tipo de arquivo inválido">>
    /\ uploadArea = "flex"
    /\ imageUploadInput # NoFile
    /\ titleInput # <<>>
    /\ \A r \in net : r.kind # "upload"

\* C11: a click on the backdrop of the open modal (the target is the modal
\* element) closes the modal; a click inside the modal's content leaves it
\* open.
C11_BackdropCloses ==
    [][/\ ImageModalClickOn("imageModal") => ~ModalIsOpen'
       /\ ImageModalClickOn("content") => ModalIsOpen']_vars
C11_Witness ==
    /\ modal.display = "none"
    /\ Cards(gallery) # <<>>
    /\ ~Navigating

\* The answer r reports a failure of its request.
IsFailure(r) ==
    \/ r.resp.status \in {"err", "fail"}
    \/ r.kind = "delete" /\ ~r.resp.success

\* C12: the step that handles a failed answer notifies the user: a failed
\* upload leaves a red text in the message area, a failed list-fetch leaves
\* the error paragraph in the gallery, a failed or refused delete raises an
\* alert.
C12_FailuresNotified ==
    [][/\ \A r \in Replied("upload") :
             (UploadResponse /\ Handles(r) /\ IsFailure(r)) =>
                 msgColor' = "red" /\ msgText' # <<>>
       /\ \A r \in Replied("list") :
             (LoadImagesResponse /\ Handles(r) /\ IsFailure(r)) =>
                 \E i \in 1..Len(gallery') :
                    /\ gallery'[i].kind = "p"
                    /\ gallery'[i].text # noDrawingsMessage.text
                    /\ gallery'[i].text # <<>>
       /\ \A r \in Replied("delete") :
             (DeleteResponse /\ Handles(r) /\ IsFailure(r)
              /\ \A q \in Replied("delete") \ {r} : q \in net') =>
                 alertMsg' # <<>>]_vars
C12_Witness ==
    /\ msgColor = "red"
    /\ msgText = <<"Erro de conexão ou servidor.">>
    /\ \A r \in net : r.kind # "upload"

\* The step is a click inside a card that is not on its delete button.
NonDeleteCardClick ==
    /\ ~Navigating
    /\ \E i \in 1..Len(gallery), part \in Parts \ {"delete-btn"} :
          ClickCard(i, part, FALSE)

C14_BlueWhileLatestInFlight ==
    [][\A r \in Replied("upload") :
          (/\ UploadResponse
           /\ Handles(r)
           /\ msgColor = "blue"
           /\ \E q \in net' : q.kind = "upload" /\ q.rid > r.rid) =>
              msgColor' = "blue"]_vars

\* C15: a confirmed click on the delete button of a card issues exactly one
\* request, a POST to the delete endpoint whose id is the card's data-id,
\* which is the id of the record the card shows, whatever the card's place in
\* the container and however often the container has been rendered.
C15_DeletePostsCardId ==
    [][\A i \in 1..Len(gallery) :
          (GalleryClick /\ CardClicked(i, "delete-btn", TRUE)) =>
              \E q \in net' :
                 /\ q \notin net
                 /\ net' = net \cup {q}
                 /\ q.kind = "delete"
                 /\ q.phase = "sent"
                 /\ q.arg.id = gallery[i].id
                 /\ \E image \in PossibleRecords :
                       /\ image.filepath = gallery[i].fullSrc
                       /\ q.arg.id = ToString(image.id)]_vars
C15_Witness ==
    /\ variant = "refetch"
    /\ CardIds(gallery) = <<"2">>
    /\ ServerIds = <<"2">>
    /\ \E q \in net :
          /\ net = {q}
          /\ q.kind = "delete" /\ q.phase = "sent" /\ ~q.orphan
          /\ q.rid = nreq
          /\ q.arg.id = "2"

\* C16: handling a list answer that is non-2xx or failed leaves the error
\* paragraph as the only child of the container, so no card is on display;
\* handling a successful list answer while the error is on display leaves
\* the placeholder or one card per record, and no error.
C16_ListErrorShownAlone ==
    [][\A r \in Replied("list") :
          (LoadImagesResponse /\ Handles(r)) =>
              /\ IsFailure(r) =>
                    /\ Len(gallery') = 1
                    /\ gallery'[1].kind = "p"
                    /\ gallery'[1].text[1] = "Erro ao carregar desenhos: "
                    /\ Cards(gallery') = <<>>
              /\ (~IsFailure(r) /\ ShowsError) =>
                    /\ ~ShowsError'
                    /\ \/ gallery' = <<noDrawingsMessage>> /\ r.resp.images = <<>>
                       \/ /\ r.resp.images # <<>>
                          /\ Len(gallery') = Len(r.resp.images)
                          /\ Len(Cards(gallery')) = Len(gallery')]_vars
C16_Witness ==
    /\ variant = "refetch"
    /\ ShowsError
    /\ Cards(gallery) = <<>>
    /\ Len(server) = 2
    /\ net = {}

\* The answers the step hands to the client's code.
Handled == {r \in net : Handles(r)}

\* C17: a submit issues at most one request, a POST /upload, and exactly one
\* when a file is selected; a confirmed delete click issues exactly one
\* request, a POST /delete; handling a failed answer issues no request; a
\* request is issued only by a submit, by a click in the gallery or by
\* handling an answer that reports success.
C17_NoRetry ==
    [][/\ SubmitUpload =>
             /\ nreq' - nreq = (IF imageUploadInput = NoFile THEN 0 ELSE 1)
             /\ \A q \in net' \ net : q.kind = "upload" /\ q.phase = "sent"
             /\ Cardinality(net' \ net) = nreq' - nreq
       /\ (CardsContainerClick /\ \E i \in 1..Len(gallery) :
                                     ClickCard(i, "delete-btn", TRUE)) =>
             /\ nreq' - nreq = 1
             /\ \A q \in net' \ net : q.kind = "delete" /\ q.phase = "sent"
             /\ Cardinality(net' \ net) = 1
       /\ (/\ UploadResponse \/ LoadImagesResponse \/ DeleteResponse
           /\ \A r \in Handled : IsFailure(r)) =>
             /\ nreq' = nreq
             /\ net' \subseteq net
       /\ nreq' # nreq =>
             \/ SubmitUpload
             \/ CardsContainerClick
             \/ /\ UploadResponse \/ DeleteResponse
                /\ \E r \in Handled : ~IsFailure(r)]_vars
C17_Witness ==
    /\ variant = "refetch"
    /\ alertMsg = <<"Ocorreu um erro ao tentar excluir o desenho.">>
    /\ nreq = 2
    /\ net = {}

\* C18: a click inside a card is handled once, by the container's listener:
\* the card has no click listener of its own, a click on the delete button
\* runs the delete flow and leaves the modal as it was, and any other click
\* opens the modal and issues no request.
C18_ClickHandledOnce ==
    [][\A i \in 1..Len(gallery), part \in Parts, confirmed \in BOOLEAN :
          (CardsContainerClick /\ ClickCard(i, part, confirmed)) =>
              /\ ~gallery[i].listener
              /\ part = "delete-btn" =>
                    /\ modal' = modal
                    /\ nreq' - nreq = (IF confirmed THEN 1 ELSE 0)
              /\ part # "delete-btn" =>
                    /\ ModalIsOpen'
                    /\ net' = net]_vars

\* C19: in the refetch variant the container holds, in every state, what one
\* rendering leaves: the placeholder alone, the error paragraph alone, or
\* cards only, each the card of a record, with the ids increasing from one
\* card to the next as in a list of the server, so that no record has two
\* cards; this with list-fetches in flight together and answered in any
\* order.
C19_OneRendering ==
    variant = "refetch" =>
       \/ gallery = <<noDrawingsMessage>>
       \/ /\ Len(gallery) = 1
          /\ gallery[1].kind = "p"
          /\ gallery[1].text[1] = "Erro ao carregar desenhos: "
       \/ /\ gallery # <<>>
          /\ \A i \in 1..Len(gallery) :
                \E image \in PossibleRecords : gallery[i] = cardHtml(image)
          /\ \A i, j \in 1..Len(gallery) :
                i < j => \E a, b \in PossibleRecords :
                            /\ gallery[i] = cardHtml(a)
                            /\ gallery[j] = cardHtml(b)
                            /\ a.id < b.id
C19_Witness ==
    /\ variant = "refetch"
    /\ Len(Cards(gallery)) = 2
    /\ \E r \in Replied("list") :
          /\ r.rid = 1
          /\ r.resp.status = "ok"
          /\ r.resp.images # <<>>
          /\ RenderImages(r.resp.images) # gallery

====
